---------------------------- MODULE Spec2Model ----------------------------
(***************************************************************************)
(* Model of build_calendar.py: fetch a schedule page, cut its text into    *)
(* per-date segments, extract one game record per segment, and write the   *)
(* records as calendar events.                                             *)
(*                                                                         *)
(* A Python str is a sequence of one-character strings; a line never holds *)
(* "\n".  None and the empty string are both the empty sequence: every use *)
(* the code makes of home, away and candidate_line (`x or ''`, `if x`)     *)
(* treats the two alike.                                                   *)
(***************************************************************************)
EXTENDS Integers, Sequences, FiniteSets, TLC

VARIABLES
    cfg_file,        \* the configuration file on disk (environment)
    page,            \* what the source URL answers (environment)
    text_lines,      \* the lines of the text the page flattens to
    pc,              \* position of main()
    run,             \* 1 for the first invocation, 2 for the re-run
    cfg,             \* main's cfg / tzname / default_minutes
    container_text,  \* parse_fcbq_schedule's container_text (after line 53)
    parts,           \* date_pat.split(container_text)
    i,               \* loop index of `for i in range(2, len(parts), 3)`
    games,           \* the games list
    last,            \* the locals of the latest loop iteration
    events,          \* the components added to cal by build_ics
    trace,           \* the steps this invocation completed, in order
    fail,            \* where the invocation raised ("" when it has not)
    printed,         \* the count main printed (-1 before the print)
    prev_uids        \* the uids the first invocation emitted

vars == <<cfg_file, page, text_lines, pc, run, cfg, container_text, parts, i,
          games, last, events, trace, fail, printed, prev_uids>>

---------------------------------------------------------------------------
(* Bounds of the model. *)

MaxSegs == 2
MaxLines == 4
MaxChars == 7

---------------------------------------------------------------------------
(* Characters and the str methods the code uses. *)

NL == "\n"

Digits == {"0", "1", "2", "3", "4", "5", "6", "7", "8", "9"}

DigitVal(c) ==
    CASE c = "0" -> 0 [] c = "1" -> 1 [] c = "2" -> 2 [] c = "3" -> 3
      [] c = "4" -> 4 [] c = "5" -> 5 [] c = "6" -> 6 [] c = "7" -> 7
      [] c = "8" -> 8 [] c = "9" -> 9

\* str.isspace / the regex class \s, over the characters the inputs use
IsSpace(c) == c \in {" ", "\t", NL}

RECURSIVE LStrip(_)
LStrip(s) ==
    IF s = <<>> THEN <<>>
    ELSE IF IsSpace(Head(s)) THEN LStrip(Tail(s)) ELSE s

RECURSIVE RStrip(_)
RStrip(s) ==
    IF s = <<>> THEN <<>>
    ELSE IF IsSpace(s[Len(s)]) THEN RStrip(SubSeq(s, 1, Len(s) - 1)) ELSE s

\* str.strip()
Strip(s) == RStrip(LStrip(s))

LowerChar(c) ==
    CASE c = "A" -> "a" [] c = "B" -> "b" [] c = "C" -> "c" [] c = "P" -> "p"
      [] c = "R" -> "r" [] OTHER -> c

\* str.lower()
Lower(s) == [k \in 1..Len(s) |-> LowerChar(s[k])]

\* `sub in s` for strings
Contains(sub, s) ==
    \E k \in 0..(Len(s) - Len(sub)) : SubSeq(s, k + 1, k + Len(sub)) = sub

\* str.split("\n"): the pieces between the separators, empty ones kept
RECURSIVE SplitNL(_, _)
SplitNL(s, cur) ==
    IF s = <<>> THEN <<cur>>
    ELSE IF Head(s) = NL THEN <<cur>> \o SplitNL(Tail(s), <<>>)
    ELSE SplitNL(Tail(s), Append(cur, Head(s)))

\* "\n".join(lines): how get_text("\n", ...) lays the page's strings out
RECURSIVE JoinNL(_)
JoinNL(ls) ==
    IF ls = <<>> THEN <<>>
    ELSE IF Len(ls) = 1 THEN ls[1]
    ELSE ls[1] \o <<NL>> \o JoinNL(Tail(ls))

---------------------------------------------------------------------------
(* The regular expressions. *)

\* \d{2}/\d{2}/\d{4} matched at position p of s
DateAt(s, p) ==
    /\ p >= 1
    /\ p + 9 <= Len(s)
    /\ \A k \in {0, 1, 3, 4, 6, 7, 8, 9} : s[p + k] \in Digits
    /\ s[p + 2] = "/"
    /\ s[p + 5] = "/"

\* re.match(r"^\d{2}/\d{2}/\d{4}$", s)
IsDateLine(s) == Len(s) = 10 /\ DateAt(s, 1)

\* re.match(r"^\d{1,2}:\d{2}$", s)
IsTimeLine(s) ==
    \/ /\ Len(s) = 4
       /\ s[1] \in Digits /\ s[2] = ":" /\ s[3] \in Digits /\ s[4] \in Digits
    \/ /\ Len(s) = 5
       /\ s[1] \in Digits /\ s[2] \in Digits /\ s[3] = ":"
       /\ s[4] \in Digits /\ s[5] \in Digits

\* (the pattern without its lookahead)
DatePatAtNoLookahead(s, p) ==
    IF /\ (p = 1 \/ (p - 1 <= Len(s) /\ s[p - 1] = NL))
       /\ DateAt(s, p)
    THEN 0
    ELSE IF /\ p <= Len(s) /\ s[p] = NL
            /\ DateAt(s, p + 1)
    THEN 1
    ELSE -1
\* date_pat at position p: (^|\n)(\d{2}/\d{2}/\d{4})(?=\n) under re.M.
\* The length of group 1 (0 for ^, 1 for \n), or -1 when there is no match.
DatePatAt(s, p) ==
    IF /\ (p = 1 \/ (p - 1 <= Len(s) /\ s[p - 1] = NL))
       /\ DateAt(s, p)
       /\ p + 10 <= Len(s) /\ s[p + 10] = NL
    THEN 0
    ELSE IF /\ p <= Len(s) /\ s[p] = NL
            /\ DateAt(s, p + 1)
            /\ p + 11 <= Len(s) /\ s[p + 11] = NL
    THEN 1
    ELSE -1

\* date_pat.split(s) from position p on, the current piece starting at `from`:
\* [before, group 1, date, after, group 1, date, after, ...]
RECURSIVE DatePatSplitFrom(_, _, _)
DatePatSplitFrom(s, p, from) ==
    IF p > Len(s) THEN <<SubSeq(s, from, Len(s))>>
    ELSE LET g == DatePatAt(s, p) IN
         IF g < 0 THEN DatePatSplitFrom(s, p + 1, from)
         ELSE <<SubSeq(s, from, p - 1),
                SubSeq(s, p, p + g - 1),
                SubSeq(s, p + g, p + g + 9)>>
              \o DatePatSplitFrom(s, p + g + 10, p + g + 10)

DatePatSplit(s) == DatePatSplitFrom(s, 1, 1)

\* The starts (positions of the date token) of date_pat's matches in s
RECURSIVE DatePatStartsFrom(_, _)
DatePatStartsFrom(s, p) ==
    IF p > Len(s) THEN {}
    ELSE LET g == DatePatAt(s, p) IN
         IF g < 0 THEN DatePatStartsFrom(s, p + 1)
         ELSE {p + g} \cup DatePatStartsFrom(s, p + g + 10)

\* re.split(r"\s{2,}", s): cur is the piece being read
RECURSIVE SkipSpace(_)
SkipSpace(s) == IF s # <<>> /\ IsSpace(Head(s)) THEN SkipSpace(Tail(s)) ELSE s

RECURSIVE ReSplit2From(_, _)
ReSplit2From(s, cur) ==
    IF s = <<>> THEN <<cur>>
    ELSE IF Len(s) >= 2 /\ IsSpace(s[1]) /\ IsSpace(s[2])
    THEN <<cur>> \o ReSplit2From(SkipSpace(s), <<>>)
    ELSE ReSplit2From(Tail(s), Append(cur, Head(s)))

ReSplit2(s) == ReSplit2From(s, <<>>)

\* re.split(r"\s{1,}", s)
RECURSIVE ReSplit1From(_, _)
ReSplit1From(s, cur) ==
    IF s = <<>> THEN <<cur>>
    ELSE IF IsSpace(s[1])
    THEN <<cur>> \o ReSplit1From(SkipSpace(s), <<>>)
    ELSE ReSplit1From(Tail(s), Append(cur, Head(s)))

ReSplit1(s) == ReSplit1From(s, <<>>)

---------------------------------------------------------------------------
(* Dates and times: dtparser.parse, tz.localize, timedelta. *)

\* date.max.toordinal(): 9999-12-31
MaxOrdinal == 3652059

MinutesPerDay == 1440

Num2(s, p) == 10 * DigitVal(s[p]) + DigitVal(s[p + 1])

Num4(s, p) == 100 * Num2(s, p) + Num2(s, p + 2)

IsLeap(y) == y % 4 = 0 /\ (y % 100 # 0 \/ y % 400 = 0)

DaysInMonth(y, m) ==
    IF m = 2 THEN (IF IsLeap(y) THEN 29 ELSE 28)
    ELSE IF m \in {4, 6, 9, 11} THEN 30 ELSE 31

DaysBeforeMonth(y, m) ==
    LET t == <<0, 31, 59, 90, 120, 151, 181, 212, 243, 273, 304, 334>>
    IN t[m] + (IF m > 2 /\ IsLeap(y) THEN 1 ELSE 0)

\* date(y, m, d).toordinal()
Ordinal(y, m, d) ==
    365 * (y - 1) + ((y - 1) \div 4) - ((y - 1) \div 100) + ((y - 1) \div 400)
      + DaysBeforeMonth(y, m) + d

\* dateutil's reading of the three numbers a/b/c of the date token, the last
\* one written with four digits, under dayfirst=True
ResolveYmd(a, b, c) ==
    IF a > 31
    THEN (IF c <= 12 THEN [y |-> a, m |-> c, d |-> b]
                     ELSE [y |-> a, m |-> b, d |-> c])
    ELSE IF a > 12 \/ b <= 12 THEN [y |-> c, m |-> b, d |-> a]
    ELSE [y |-> c, m |-> a, d |-> b]

NoTime == [ok |-> FALSE, day |-> 0, min |-> 0]

\* dtparser.parse(f"{date_str} {time_line}", dayfirst=True): ok is FALSE
\* where the call raises
ParseDateTime(date_str, time_line) ==
    LET ymd == ResolveYmd(Num2(date_str, 1), Num2(date_str, 4), Num4(date_str, 7))
        t   == Strip(time_line)
        h   == IF Len(t) = 4 THEN DigitVal(t[1]) ELSE Num2(t, 1)
        mi  == Num2(t, Len(t) - 1)
    IN IF /\ ymd.y >= 1 /\ ymd.y <= 9999
          /\ ymd.m >= 1 /\ ymd.m <= 12
          /\ ymd.d >= 1 /\ ymd.d <= DaysInMonth(ymd.y, ymd.m)
          /\ h <= 23 /\ mi <= 59
       THEN [ok |-> TRUE, day |-> Ordinal(ymd.y, ymd.m, ymd.d), min |-> 60 * h + mi]
       ELSE NoTime

\* tz.localize(start_local) of a zone with transitions: pytz probes the day
\* before and the day after, so the first and the last day of the calendar
\* raise OverflowError
LocalizeOverflows(t) == t.day - 1 < 1 \/ t.day + 1 > MaxOrdinal

\* t + timedelta(minutes=n), on (day, minute of day)
AddMinutes(t, n) ==
    LET total == t.min + n
    IN [ok |-> TRUE,
        day |-> t.day + (total \div MinutesPerDay),
        min |-> total % MinutesPerDay]

\* whether t + timedelta(minutes=n) raises OverflowError
AddOverflows(t, n) ==
    LET e == AddMinutes(t, n) IN e.day < 1 \/ e.day > MaxOrdinal

\* a < b for two datetimes of the same zone
Before(a, b) == a.day < b.day \/ (a.day = b.day /\ a.min < b.min)

---------------------------------------------------------------------------
(* The body of the loop over segments, lines 61-155. *)

RECURSIVE NonBlank(_)
\* [ln for ln in ls if ln.strip()]
NonBlank(ls) ==
    IF ls = <<>> THEN <<>>
    ELSE IF Strip(Head(ls)) # <<>> THEN <<Head(ls)>> \o NonBlank(Tail(ls))
    ELSE NonBlank(Tail(ls))

\* lines 62-64: the non-blank lines of the text after the date
BodyLines(after) == NonBlank(SplitNL(after, <<>>))

\* line 71: the first line that looks like a time, <<>> for None
RECURSIVE FirstTimeLine(_)
FirstTimeLine(ls) ==
    IF ls = <<>> THEN <<>>
    ELSE IF IsTimeLine(Strip(Head(ls))) THEN Head(ls)
    ELSE FirstTimeLine(Tail(ls))

\* lines 67-74: time_line, <<>> when the segment is skipped for want of one
TimeLine(lines) ==
    IF IsTimeLine(Strip(lines[1])) THEN Strip(lines[1])
    ELSE FirstTimeLine(lines)

Categoria == <<"C", "a", "t", "e", "g", "o", "r", "i", "a">>

CampDeJoc == <<"C", "a", "m", "p", " ", "d", "e", " ", "j", "o", "c">>

\* lines 98-106 over the lines ls still to visit: candidate_line, <<>> for None
RECURSIVE CandidateFrom(_)
CandidateFrom(ls) ==
    IF ls = <<>> THEN <<>>
    ELSE LET s == Strip(Head(ls)) IN
         IF IsDateLine(s) THEN <<>>
         ELSE IF Contains(Categoria, s) \/ Contains(CampDeJoc, s)
         THEN CandidateFrom(Tail(ls))
         ELSE s

\* line 98: the scan starts at lines[1:]
CandidateLine(lines) == CandidateFrom(Tail(lines))

\* (a split at every whitespace character)
ChunksSingle(candidate_line) == ReSplit1(candidate_line)
\* lines 111-114
Chunks(candidate_line) ==
    LET c == ReSplit2(candidate_line)
    IN IF Len(c) < 2 THEN ReSplit1(candidate_line) ELSE c

\* lines 108-120: home, away and venue_name of the candidate line
Fields(candidate_line) ==
    IF candidate_line = <<>>
    THEN [home |-> <<>>, away |-> <<>>, venue_name |-> <<>>]
    ELSE LET c == Chunks(candidate_line) IN
         IF Len(c) >= 2
         THEN [home |-> Strip(c[1]), away |-> Strip(c[2]),
               venue_name |-> IF Len(c) >= 3 THEN Strip(c[Len(c)]) ELSE <<>>]
         ELSE [home |-> <<>>, away |-> <<>>, venue_name |-> <<>>]

\* line 129
LooksLikeAddress(s) == \E k \in 1..Len(s) : s[k] \in Digits \cup {","}

\* lines 124-131 over the lines ls still to visit
RECURSIVE AddressFrom(_)
AddressFrom(ls) ==
    IF ls = <<>> THEN <<>>
    ELSE LET s == Strip(Head(ls)) IN
         IF IsDateLine(s) \/ IsTimeLine(s) THEN <<>>
         ELSE IF LooksLikeAddress(s) THEN s
         ELSE AddressFrom(Tail(ls))

\* line 124: the scan starts at lines[2:]
AddressLine(lines) ==
    IF Len(lines) <= 2 THEN <<>> ELSE AddressFrom(SubSeq(lines, 3, Len(lines)))

Bar == <<"|">>

\* line 134
GameId(date_str, time_line, home, away, venue_name) ==
    date_str \o Bar \o time_line \o Bar \o home \o Bar \o away \o Bar \o venue_name

\* " \u2014 ": the dash is the one element "--"
EmDash == <<" ", "--", " ">>

\* lines 137-139
VenueFull(venue_name, address_line) ==
    IF address_line # <<>> /\ ~Contains(address_line, venue_name)
    THEN (IF venue_name # <<>> THEN venue_name \o EmDash \o address_line
          ELSE address_line)
    ELSE venue_name

NoGame ==
    [game_id |-> <<>>, home |-> <<>>, away |-> <<>>, start |-> NoTime,
     end |-> NoTime, venue |-> <<>>, location |-> <<>>, url |-> "",
     date_str |-> <<>>, time_line |-> <<>>]

NoLocals ==
    [outcome |-> "none", date_str |-> <<>>, lines |-> <<>>, time_line |-> <<>>,
     candidate_line |-> <<>>, address_line |-> <<>>, game |-> NoGame]

\* One pass of the loop body over (date_str, after): its locals and how it
\* ended: "empty" (line 66), "no_time" (line 73), "parse_error" (line 80),
\* "overflow" (lines 82-83 raise), "appended" (line 146).  The game keeps
\* date_str and time_line beside the keys the code gives it, for the claims
\* that speak of them.
LoopBody(date_str, after, tzname, default_minutes, url) ==
    LET lines == BodyLines(after)
        base  == [NoLocals EXCEPT !.date_str = date_str, !.lines = lines]
    IN
    IF lines = <<>> THEN [base EXCEPT !.outcome = "empty"]
    ELSE
    LET time_line == TimeLine(lines) IN
    IF time_line = <<>> THEN [base EXCEPT !.outcome = "no_time"]
    ELSE
    LET start_local == ParseDateTime(date_str, time_line)
        timed == [base EXCEPT !.time_line = time_line]
    IN
    IF ~start_local.ok THEN [timed EXCEPT !.outcome = "parse_error"]
    ELSE IF LocalizeOverflows(start_local) \/ AddOverflows(start_local, default_minutes)
    THEN [timed EXCEPT !.outcome = "overflow"]
    ELSE
    LET end_local      == AddMinutes(start_local, default_minutes)
        candidate_line == CandidateLine(lines)
        f              == Fields(candidate_line)
        address_line   == AddressLine(lines)
        gid            == GameId(date_str, time_line, f.home, f.away, f.venue_name)
        venue_full     == VenueFull(f.venue_name, address_line)
    IN [timed EXCEPT
          !.outcome = "appended",
          !.candidate_line = candidate_line,
          !.address_line = address_line,
          !.game = [game_id |-> gid,
                    home |-> Strip(f.home),
                    away |-> Strip(f.away),
                    start |-> start_local,
                    end |-> end_local,
                    venue |-> Strip(f.venue_name),
                    location |-> Strip(venue_full),
                    url |-> url,
                    date_str |-> date_str,
                    time_line |-> time_line]]

---------------------------------------------------------------------------
(* The inputs. *)

SeqUpTo(S, n) == UNION {[1..k -> S] : k \in 0..n}

D1 == <<"0", "4", "/", "1", "0", "/", "2", "0", "2", "5">>

\* 31 February: dtparser.parse raises
DBad == <<"3", "1", "/", "0", "2", "/", "2", "0", "2", "5">>

\* the last day datetime can hold
DMax == <<"3", "1", "/", "1", "2", "/", "9", "9", "9", "9">>

T1 == <<"1", "5", ":", "3", "0">>

TeamsAB == <<"A", " ", " ", "B">>

TeamsCA == <<"C", " ", " ", "A">>

TeamsVenue == <<"A", " ", " ", "B", " ", " ", "3", " ", " ", "P">>

Street == <<"R", " ", "5">>

Icon == <<"x">>

\* a date inside a longer line
DateInLine == <<"x", " ">> \o D1

\* a date followed by a blank on its line
DatePadded == D1 \o <<" ">>

\* The segments the pipeline's pages are made of: a date line and body lines
PipeSegs ==
    { <<D1, T1, TeamsAB>>,
      <<D1, T1, TeamsCA>>,
      <<D1, T1, TeamsVenue, Street>>,
      <<D1, Icon>>,
      <<D1, Icon, T1, TeamsAB>>,
      <<D1, T1, Categoria, TeamsVenue, Street>>,
      <<D1, T1>>,
      <<DBad, T1, TeamsAB>>,
      <<DMax, T1, TeamsAB>> }

RECURSIVE Flatten(_)
Flatten(ss) == IF ss = <<>> THEN <<>> ELSE Head(ss) \o Flatten(Tail(ss))

\* The pages of the pipeline: up to MaxSegs segments one after the other
PipeTexts == {Flatten(ss) : ss \in SeqUpTo(PipeSegs, MaxSegs)}

\* The lines the segmenter's texts are made of
SegLinePool == {D1, T1, TeamsAB, DateInLine, DatePadded, <<>>, <<" ">>}

SegTexts == SeqUpTo(SegLinePool, MaxLines)

FieldAlphabet == {"A", "B", " "}

\* One segment whose third line is any string over FieldAlphabet
FieldTexts == {<<D1, T1, c>> : c \in SeqUpTo(FieldAlphabet, MaxChars)}

Url == "https://www.basquetcatala.cat/partits/calendari_equip_global/176/81055"

\* default_duration_minutes as the file gives it: int() raises on the last
DurationInputs ==
    { [numeric |-> TRUE, val |-> 90], [numeric |-> TRUE, val |-> 0],
      [numeric |-> TRUE, val |-> -30], [numeric |-> FALSE, val |-> 0] }

FilterInputs == { <<>>, <<" ", "B">> }

\* pytz.timezone raises on the second
TimezoneInputs == { "Europe/Madrid", "Mars/Olympus" }

KnownTimezones == { "Europe/Madrid" }

NoCfg == [readable |-> FALSE, minutes |-> [numeric |-> FALSE, val |-> 0],
          include_team |-> <<>>, tz |-> ""]

CfgFiles ==
    {NoCfg} \cup
    { [readable |-> TRUE, minutes |-> m, include_team |-> f, tz |-> z] :
        m \in DurationInputs, f \in FilterInputs, z \in TimezoneInputs }

DefaultCfg == [default_minutes |-> 90, inc |-> <<>>, tzname |-> "Europe/Madrid"]

---------------------------------------------------------------------------
(* main(), parse_fcbq_schedule() and build_ics() step by step. *)

Fresh ==
    /\ pc = "start"
    /\ cfg = DefaultCfg
    /\ container_text = <<>>
    /\ parts = <<>>
    /\ i = 0
    /\ games = <<>>
    /\ last = NoLocals
    /\ events = <<>>
    /\ trace = <<>>
    /\ fail = ""
    /\ printed = -1

Init ==
    /\ cfg_file \in CfgFiles
    /\ \/ page = [status |-> 500, lines |-> <<>>]
       \/ \E t \in PipeTexts : page = [status |-> 200, lines |-> t]
    /\ text_lines = page.lines
    /\ run = 1
    /\ prev_uids = <<>>
    /\ Fresh

Raise(where) ==
    /\ pc' = "failed"
    /\ fail' = where

\* lines 194-198: load_config and the reads of cfg
LoadConfig ==
    /\ pc = "start"
    /\ IF cfg_file.readable /\ cfg_file.minutes.numeric
       THEN /\ cfg' = [default_minutes |-> cfg_file.minutes.val,
                       inc |-> cfg_file.include_team,
                       tzname |-> cfg_file.tz]
            /\ pc' = "configured"
            /\ trace' = Append(trace, "load_config")
            /\ fail' = fail
       ELSE /\ Raise("config")
            /\ UNCHANGED <<cfg, trace>>
    /\ UNCHANGED <<cfg_file, page, text_lines, run, container_text, parts, i,
                   games, last, events, printed, prev_uids>>

\* (a fetch that opens the output file when the GET fails)
FetchTouchingFile ==
    /\ pc = "configured"
    /\ IF page.status # 200
       THEN /\ Raise("fetch")
            /\ trace' = Append(trace, "open")
            /\ UNCHANGED container_text
       ELSE IF cfg.tzname \notin KnownTimezones
       THEN /\ Raise("timezone")
            /\ UNCHANGED <<container_text, trace>>
       ELSE /\ container_text' = JoinNL(page.lines)
            /\ pc' = "fetched"
            /\ trace' = Append(trace, "fetch")
            /\ fail' = fail
    /\ UNCHANGED <<cfg_file, page, text_lines, run, cfg, parts, i, games, last,
                   events, printed, prev_uids>>
\* lines 26-53: the GET, raise_for_status, pytz.timezone, and the page's text
\* as get_text lays it out, cut after the schedule header
Fetch ==
    /\ pc = "configured"
    /\ IF page.status # 200
       THEN /\ Raise("fetch")
            /\ UNCHANGED <<container_text, trace>>
       ELSE IF cfg.tzname \notin KnownTimezones
       THEN /\ Raise("timezone")
            /\ UNCHANGED <<container_text, trace>>
       ELSE /\ container_text' = JoinNL(page.lines)
            /\ pc' = "fetched"
            /\ trace' = Append(trace, "fetch")
            /\ fail' = fail
    /\ UNCHANGED <<cfg_file, page, text_lines, run, cfg, parts, i, games, last,
                   events, printed, prev_uids>>

\* lines 56-57
SplitDates ==
    /\ pc = "fetched"
    /\ parts' = DatePatSplit(container_text)
    /\ i' = 2
    /\ pc' = "loop"
    /\ UNCHANGED <<cfg_file, page, text_lines, run, cfg, container_text, games,
                   last, events, trace, fail, printed, prev_uids>>

\* parts[k] with Python's indices from 0
Part(k) == parts[k + 1]

\* (a loop that stops at the first segment it cannot read)
ParseSegmentBreaking ==
    /\ pc = "loop"
    /\ i < Len(parts)
    /\ LET date_str == Part(i)
           after    == IF i + 1 < Len(parts) THEN Part(i + 1) ELSE <<>>
           loc      == LoopBody(date_str, after, cfg.tzname, cfg.default_minutes, Url)
       IN /\ last' = loc
          /\ IF loc.outcome = "overflow"
             THEN /\ Raise("loop")
                  /\ UNCHANGED <<games, i>>
             ELSE /\ games' = IF loc.outcome = "appended"
                              THEN Append(games, loc.game) ELSE games
                  /\ i' = IF loc.outcome \in {"no_time", "parse_error"}
                           THEN Len(parts) ELSE i + 3
                  /\ UNCHANGED <<pc, fail>>
    /\ UNCHANGED <<cfg_file, page, text_lines, run, cfg, container_text, parts,
                   events, trace, printed, prev_uids>>
\* lines 60-155: one iteration of the loop
ParseSegment ==
    /\ pc = "loop"
    /\ i < Len(parts)
    /\ LET date_str == Part(i)
           after    == IF i + 1 < Len(parts) THEN Part(i + 1) ELSE <<>>
           loc      == LoopBody(date_str, after, cfg.tzname, cfg.default_minutes, Url)
       IN /\ last' = loc
          /\ IF loc.outcome = "overflow"
             THEN /\ Raise("loop")
                  /\ UNCHANGED <<games, i>>
             ELSE /\ games' = IF loc.outcome = "appended"
                              THEN Append(games, loc.game) ELSE games
                  /\ i' = i + 3
                  /\ UNCHANGED <<pc, fail>>
    /\ UNCHANGED <<cfg_file, page, text_lines, run, cfg, container_text, parts,
                   events, trace, printed, prev_uids>>

\* (a filter that keeps every game)
WithTeamsKeepAll(gs) == gs
\* line 158: [g for g in games if g["home"] and g["away"]]
RECURSIVE WithTeams(_)
WithTeams(gs) ==
    IF gs = <<>> THEN <<>>
    ELSE IF Head(gs).home # <<>> /\ Head(gs).away # <<>>
    THEN <<Head(gs)>> \o WithTeams(Tail(gs))
    ELSE WithTeams(Tail(gs))

\* lines 158-159: the loop is over; filter and return
FilterMissing ==
    /\ pc = "loop"
    /\ i >= Len(parts)
    /\ games' = WithTeams(games)
    /\ pc' = "parsed"
    /\ trace' = Append(trace, "parse")
    /\ UNCHANGED <<cfg_file, page, text_lines, run, cfg, container_text, parts,
                   i, last, events, fail, printed, prev_uids>>

\* line 206: [g for g in games if inc in g["home"].lower() or inc in g["away"].lower()]
RECURSIVE Including(_, _)
Including(inc, gs) ==
    IF gs = <<>> THEN <<>>
    ELSE IF Contains(inc, Lower(Head(gs).home)) \/ Contains(inc, Lower(Head(gs).away))
    THEN <<Head(gs)>> \o Including(inc, Tail(gs))
    ELSE Including(inc, Tail(gs))

\* lines 204-206
FilterTeam ==
    /\ pc = "parsed"
    /\ LET inc == Lower(Strip(cfg.inc))
       IN games' = IF inc # <<>> THEN Including(inc, games) ELSE games
    /\ pc' = "filtered"
    /\ trace' = Append(trace, "filter")
    /\ UNCHANGED <<cfg_file, page, text_lines, run, cfg, container_text, parts,
                   i, last, events, fail, printed, prev_uids>>

\* (a uid that differs from one invocation to the next)
ShaUidPerRun(s) == [sha1 |-> s, suffix |-> IF run = 1 THEN "@auto-fixtures" ELSE "@again"]
\* line 15: sha1 is taken to be free of collisions, so the digest of s is
\* s itself under the tag sha1; the suffix is the code's
ShaUid(s) == [sha1 |-> s, suffix |-> "@auto-fixtures"]

\* line 174 with the template "{home} vs {away}"
Title(g) == g.home \o <<" ", "v", "s", " ">> \o g.away

\* lines 173-185: the event of game g; game is g itself, kept for the claims
EventOf(g) ==
    [summary |-> Title(g),
     dtstart |-> g.start,
     dtend |-> g.end,
     location |-> g.location,
     description |-> g.url,
     uid |-> ShaUid(g.game_id),
     url |-> g.url,
     game |-> g]

\* lines 164-186
BuildEvents ==
    /\ pc = "filtered"
    /\ events' = [k \in 1..Len(games) |-> EventOf(games[k])]
    /\ pc' = "built"
    /\ trace' = Append(trace, "events")
    /\ UNCHANGED <<cfg_file, page, text_lines, run, cfg, container_text, parts,
                   i, games, last, fail, printed, prev_uids>>

\* line 188
OpenFile ==
    /\ pc = "built"
    /\ pc' = "opened"
    /\ trace' = Append(trace, "open")
    /\ UNCHANGED <<cfg_file, page, text_lines, run, cfg, container_text, parts,
                   i, games, last, events, fail, printed, prev_uids>>

\* line 189
WriteFile ==
    /\ pc = "opened"
    /\ pc' = "written"
    /\ trace' = Append(trace, "write")
    /\ UNCHANGED <<cfg_file, page, text_lines, run, cfg, container_text, parts,
                   i, games, last, events, fail, printed, prev_uids>>

\* line 209
PrintCount ==
    /\ pc = "written"
    /\ printed' = Len(games)
    /\ pc' = "done"
    /\ trace' = Append(trace, "print")
    /\ UNCHANGED <<cfg_file, page, text_lines, run, cfg, container_text, parts,
                   i, games, last, events, fail, prev_uids>>

Uids(es) == [k \in 1..Len(es) |-> es[k].uid]

\* lines 211-212 once more: the program is started again, the configuration
\* file and the page being what they were
Rerun ==
    /\ pc = "done"
    /\ run = 1
    /\ run' = 2
    /\ prev_uids' = Uids(events)
    /\ pc' = "start"
    /\ cfg' = DefaultCfg
    /\ container_text' = <<>>
    /\ parts' = <<>>
    /\ i' = 0
    /\ games' = <<>>
    /\ last' = NoLocals
    /\ events' = <<>>
    /\ trace' = <<>>
    /\ fail' = ""
    /\ printed' = -1
    /\ UNCHANGED <<cfg_file, page, text_lines>>

Next ==
    \/ LoadConfig
    \/ Fetch
    \/ SplitDates
    \/ ParseSegment
    \/ FilterMissing
    \/ FilterTeam
    \/ BuildEvents
    \/ OpenFile
    \/ WriteFile
    \/ PrintCount
    \/ Rerun

Spec == Init /\ [][Next]_vars

\* The parser alone, on every text of SegTexts and FieldTexts
InitParse ==
    /\ cfg_file = NoCfg
    /\ text_lines \in SegTexts \cup FieldTexts
    /\ page = [status |-> 200, lines |-> text_lines]
    /\ run = 1
    /\ prev_uids = <<>>
    /\ pc = "fetched"
    /\ cfg = DefaultCfg
    /\ container_text = JoinNL(text_lines)
    /\ parts = <<>>
    /\ i = 0
    /\ games = <<>>
    /\ last = NoLocals
    /\ events = <<>>
    /\ trace = <<"load_config", "fetch">>
    /\ fail = ""
    /\ printed = -1

NextParse ==
    \/ SplitDates
    \/ ParseSegment
    \/ FilterMissing

SpecParse == InitParse /\ [][NextParse]_vars

---------------------------------------------------------------------------
(* parse_fcbq_schedule as a function of the text, lines 56-159. *)

RECURSIVE LoopAll(_, _, _, _)
\* lines 60-155 over the parts ps from index k (Python's) on
LoopAll(ps, k, tzname, default_minutes) ==
    IF k >= Len(ps) THEN <<>>
    ELSE LET after == IF k + 1 < Len(ps) THEN ps[k + 2] ELSE <<>>
             loc   == LoopBody(ps[k + 1], after, tzname, default_minutes, Url)
         IN (IF loc.outcome = "appended" THEN <<loc.game>> ELSE <<>>)
            \o LoopAll(ps, k + 3, tzname, default_minutes)

ParseText(text, tzname, default_minutes) ==
    WithTeams(LoopAll(DatePatSplit(text), 2, tzname, default_minutes))

AfterOf(k) == IF k + 1 < Len(parts) THEN Part(k + 1) ELSE <<>>

Min(S) == CHOOSE x \in S : \A y \in S : x <= y

---------------------------------------------------------------------------
(* The claims. *)

Returned == {"parsed", "filtered", "built", "opened", "written", "done"}

HasTeams(g) == Strip(g.home) # <<>> /\ Strip(g.away) # <<>>

\* C1: no game whose home or away is empty after trimming is among the games
\* parse_fcbq_schedule returned, among the events build_ics wrote, or in the
\* count main prints.
C1_NoTeamlessGame ==
    /\ pc \in Returned => \A k \in 1..Len(games) : HasTeams(games[k])
    /\ \A k \in 1..Len(events) : HasTeams(events[k].game)
    /\ printed # -1 =>
         printed = Cardinality({k \in 1..Len(events) : HasTeams(events[k].game)})

\* C1's case: a segment gave a game without teams, and the run printed the
\* count of the others
C1_Witness ==
    /\ pc = "done"
    /\ last.outcome = "appended"
    /\ last.game.home = <<>>
    /\ printed = 1

IdentityFields(g) == <<g.date_str, g.time_line, g.home, g.away, g.venue>>

AloneGames(k) ==
    ParseText(Part(k) \o AfterOf(k), cfg.tzname, cfg.default_minutes)

RECURSIVE ConcatAlone(_)
\* The games of the segments from k on, each on its own, in order
ConcatAlone(k) ==
    IF k >= Len(parts) THEN <<>> ELSE AloneGames(k) \o ConcatAlone(k + 3)

\* C3: the games returned are the games of each segment taken alone, in
\* order; and the loop never raises on a segment that has no time line or
\* whose date and time do not parse.
C3_FailingSegmentDropped ==
    /\ pc = "parsed" => games = ConcatAlone(2)
    /\ fail = "loop" =>
         /\ last.lines # <<>>
         /\ TimeLine(last.lines) # <<>>
         /\ ParseDateTime(last.date_str, TimeLine(last.lines)).ok

\* C3's case: of two segments the first has no time line, the second gives
\* the one game returned
C3_Witness ==
    /\ pc = "parsed"
    /\ Len(parts) = 7
    /\ TimeLine(BodyLines(Part(3))) = <<>>
    /\ Len(games) = 1
    /\ last.outcome = "appended"

\* The segments the loop works on: date and non-blank body lines, those
\* without body lines left out (lines 61-66)
RECURSIVE CodeSegments(_)
CodeSegments(k) ==
    IF k >= Len(parts) THEN <<>>
    ELSE LET body == BodyLines(AfterOf(k))
         IN (IF body = <<>> THEN <<>> ELSE <<[date |-> Part(k), body |-> body]>>)
            \o CodeSegments(k + 3)

\* The lines of the text that are a date token and nothing else
DateLineNos == {k \in 1..Len(text_lines) : IsDateLine(text_lines[k])}

\* The last line of the segment that starts at line k
SegmentEnd(k) ==
    LET later == {j \in DateLineNos : j > k}
    IN IF later = {} THEN Len(text_lines) ELSE Min(later) - 1

RefBody(k) == NonBlank(SubSeq(text_lines, k + 1, SegmentEnd(k)))

RECURSIVE RefSegments(_)
\* The segments by lines, from line k on
RefSegments(k) ==
    IF k > Len(text_lines) THEN <<>>
    ELSE IF k \in DateLineNos /\ RefBody(k) # <<>>
    THEN <<[date |-> text_lines[k], body |-> RefBody(k)]>> \o RefSegments(k + 1)
    ELSE RefSegments(k + 1)

\* Every date line is followed by a non-blank body line of its own
WellFormed == \A k \in DateLineNos : RefBody(k) # <<>>

\* The line of the text that position p of container_text lies on
LineOf(p) == 1 + Cardinality({q \in 1..(p - 1) : container_text[q] = NL})

\* The lines date_pat matches on
MatchLineNos == {LineOf(p) : p \in DatePatStartsFrom(container_text, 1)}

\* C4 as stated: the boundaries are the date lines, all of them; a text whose
\* date lines each have non-blank body lines gives one segment per date line,
\* in order, its body the lines up to the next date line or the end.
C4_EveryDateLineBounds ==
    pc \in {"loop", "parsed"} =>
      /\ MatchLineNos = DateLineNos
      /\ WellFormed => CodeSegments(2) = RefSegments(1)

\* C4, amended: the boundaries are the date lines that a further line follows
\* (a date line that ends the text is no boundary and stays in the body
\* before it), and no other line; a text whose date lines each have
\* non-blank body lines gives one segment per date line, in order, its body
\* the lines up to the next date line or the end.
C4_SegmentsAreDateLines ==
    pc \in {"loop", "parsed"} =>
      /\ MatchLineNos = {k \in DateLineNos : k < Len(text_lines)}
      /\ WellFormed => CodeSegments(2) = RefSegments(1)

\* C4's case: two segments, and a line that holds a date among other text
C4_Witness ==
    /\ pc = "loop"
    /\ WellFormed
    /\ Len(CodeSegments(2)) = 2
    /\ \E k \in 1..Len(text_lines) : text_lines[k] = DateInLine

\* Two whitespace characters at k and k + 1 of c
DoubleAt(c, k) == k >= 1 /\ k + 1 <= Len(c) /\ IsSpace(c[k]) /\ IsSpace(c[k + 1])

HasDouble(c) == \E k \in 1..Len(c) : DoubleAt(c, k)

\* The separators of c: the starts of its runs of two or more whitespace
\* characters when wide, of its whitespace characters otherwise
SepStarts(c, wide) ==
    {k \in 1..Len(c) :
        /\ IF wide THEN DoubleAt(c, k) ELSE IsSpace(c[k])
        /\ (k = 1 \/ ~IsSpace(c[k - 1]))}

\* The first position after the separator that starts at k
SepEnd(c, k) == Min({j \in (k + 1)..(Len(c) + 1) : j > Len(c) \/ ~IsSpace(c[j])})

\* Field n (from 1) of c cut at its separators
FieldNo(c, wide, n) ==
    LET seps  == SepStarts(c, wide)
        below == {k \in seps : Cardinality({j \in seps : j < k}) = n - 2}
        from  == IF n = 1 THEN 1 ELSE SepEnd(c, Min(below))
        next  == {k \in seps : k >= from}
    IN SubSeq(c, from, IF next = {} THEN Len(c) ELSE Min(next) - 1)

FieldCount(c, wide) == 1 + Cardinality(SepStarts(c, wide))

\* C5: home is field 0 and away field 1 of the candidate line cut at runs of
\* two or more whitespace characters when that gives two fields or more, the
\* venue name the last field when there are three or more and empty
\* otherwise; the cut at single whitespace is used only when there is no run
\* of two.
C5_FieldsOfCandidate ==
    (last.outcome = "appended" /\ last.candidate_line # <<>>) =>
      LET c    == last.candidate_line
          wide == HasDouble(c)
          n    == FieldCount(c, wide)
          g    == last.game
      IN IF n >= 2
         THEN /\ g.home = FieldNo(c, wide, 1)
              /\ g.away = FieldNo(c, wide, 2)
              /\ g.venue = IF n >= 3 THEN FieldNo(c, wide, n) ELSE <<>>
         ELSE g.home = <<>> /\ g.away = <<>> /\ g.venue = <<>>

\* C5's case: a candidate line with three fields two blanks apart
C5_Witness ==
    /\ last.outcome = "appended"
    /\ HasDouble(last.candidate_line)
    /\ last.game.venue # <<>>

\* C6: the file is opened only after configuration, fetch, parsing, filtering
\* and the building of the events, written only after it is opened, the
\* count printed only after the write; a run that failed opened nothing.
C6_WriteOnlyAfterAll ==
    /\ \A k \in 1..Len(trace) :
         /\ trace[k] = "open" =>
              SubSeq(trace, 1, k - 1) =
                <<"load_config", "fetch", "parse", "filter", "events">>
         /\ trace[k] = "write" => (k > 1 /\ trace[k - 1] = "open")
         /\ trace[k] = "print" => (k > 1 /\ trace[k - 1] = "write")
    /\ pc = "failed" =>
         /\ \A k \in 1..Len(trace) : trace[k] \notin {"open", "write", "print"}
         /\ printed = -1

\* C6's case: the fetch failed
C6_Witness ==
    /\ pc = "failed"
    /\ fail = "fetch"

\* C7: every game ends default_minutes after its start and strictly after it.
C7_EndAfterStart ==
    \A k \in 1..Len(games) :
        /\ games[k].end = AddMinutes(games[k].start, cfg.default_minutes)
        /\ Before(games[k].start, games[k].end)

\* The place of the time line among the lines
TimeLineNo(lines) == Min({k \in 1..Len(lines) : IsTimeLine(Strip(lines[k]))})

IsLabel(s) == Contains(Categoria, s) \/ Contains(CampDeJoc, s)

\* C8: the candidate line is the first line after the time line that is no
\* date line and holds no section label.
C8_CandidateAfterTime ==
    last.outcome = "appended" =>
      LET lines == last.lines
          ok    == {k \in (TimeLineNo(lines) + 1)..Len(lines) :
                       ~IsDateLine(Strip(lines[k])) /\ ~IsLabel(Strip(lines[k]))}
      IN last.candidate_line = IF ok = {} THEN <<>> ELSE Strip(lines[Min(ok)])

\* The place among ls (from line k on) of the line the code takes as the
\* candidate line, 0 when it takes none
RECURSIVE CandidateNoFrom(_, _)
CandidateNoFrom(lines, k) ==
    IF k > Len(lines) THEN 0
    ELSE LET s == Strip(lines[k]) IN
         IF IsDateLine(s) THEN 0
         ELSE IF IsLabel(s) THEN CandidateNoFrom(lines, k + 1)
         ELSE k

\* C9: the address line is the first line strictly after the candidate line
\* that holds a digit or a comma, the scan stopping at a date or time line.
C9_AddressAfterCandidate ==
    (last.outcome = "appended" /\ last.candidate_line # <<>>) =>
      LET lines == last.lines
          c     == CandidateNoFrom(lines, 2)
      IN last.address_line = AddressFrom(SubSeq(lines, c + 1, Len(lines)))

\* C10: no two events of one run share a uid.
C10_UniqueUids ==
    \A j, k \in 1..Len(events) : j # k => events[j].uid # events[k].uid

===========================================================================
